---- MODULE Spec2Model ----
(***************************************************************************)
(* A model of the radix trie of src/radix.c: a set of nul-terminated byte  *)
(* strings kept as a compressed prefix tree.                               *)
(*                                                                         *)
(* A sibling list (the chain of `sib` pointers starting at a pointer slot) *)
(* is a sequence of nodes; the empty sequence is the NULL pointer.  A node *)
(* is a record [substr, child]: `substr` holds the node's `len` bytes      *)
(* (len = Len(substr)) and `child` is the sibling list its child pointer   *)
(* heads.  A C string is a sequence of bytes ending with the byte 0; C     *)
(* index i is TLA+ index i + 1.  Keys are made of bytes below 128, which   *)
(* compare alike whether char is signed or not.                            *)
(***************************************************************************)
EXTENDS Integers, Sequences, FiniteSets, TLC

\* ------------------------------------------------------------------ bounds

\* Longest key (without its terminator) handed to insert, delete and the queries.
MaxLen == 3

\* Most members the set holds at once (insert of a new key is not tried beyond it).
MaxMembers == 3

\* Most allocation failures injected along one behaviour.
MaxFails == 1

\* The content bytes keys are made of; 0 is the terminator.
Bytes == {1, 2}

NUL == 0

RECURSIVE KeysUpTo(_)
KeysUpTo(n) ==
    IF n = 0 THEN {<< >>}
    ELSE LET shorter == KeysUpTo(n - 1)
         IN  shorter \cup {Append(k, b) : k \in {x \in shorter : Len(x) = n - 1}, b \in Bytes}

\* Every key the model passes to the program.
Keys == KeysUpTo(MaxLen)

\* The C string of a key: its bytes and the terminator.
CStr(key) == Append(key, NUL)

\* A pointer moved forward by n bytes (str += n).
Advance(str, n) == SubSeq(str, n + 1, Len(str))

\* The NULL string pointer (a C string is never empty: it holds its terminator).
NULLSTR == << >>

\* The NULL node pointer: an empty sibling list.
NULLPTR == << >>

VARIABLES
    root,       \* the caller's root pointer: the top sibling list
    members,    \* the abstract set: keys inserted and not deleted since
    last,       \* the last call to insert or delete: its name and what it returned
    fails       \* allocation failures so far: [ins |-> n, fuse |-> m]

vars == <<root, members, last, fails>>

\* ------------------------------------------------------------- radix.c

\* The loop of radix_trie_diff from index res on.
RECURSIVE DiffFrom(_, _, _)
DiffFrom(node, str, res) ==
    IF res < Len(node.substr) /\ node.substr[res + 1] = str[res + 1] /\ str[res + 1] # NUL
    THEN DiffFrom(node, str, res + 1)
    ELSE res

radix_trie_diff(node, str) == DiffFrom(node, str, 0)

\* The loop of radix_trie_lsfind from position j of the sibling list on.
RECURSIVE LsfindFrom(_, _, _)
LsfindFrom(head, chr, j) ==
    IF j <= Len(head) /\ head[j].substr[1] < chr
    THEN LsfindFrom(head, chr, j + 1)
    ELSE j

\* The slot radix_trie_lsfind returns, as a position of the sibling list
\* `head`: 1..Len(head) is the slot holding that node, Len(head) + 1 is the
\* NULL slot ending the list.
radix_trie_lsfind(head, chr) == LsfindFrom(head, chr, 1)

\* A slip in the linking: the new node always becomes the head of the list.
LinkAtHead(head, j, node) == <<node>> \o head

\* The sibling list with `node` linked in at slot j (node->sib = *pos; *pos = node).
LinkAt(head, j, node) ==
    SubSeq(head, 1, j - 1) \o <<node>> \o SubSeq(head, j, Len(head))

\* The sibling list with the node at slot j spliced out (*root = (*root)->sib).
UnlinkAt(head, j) ==
    SubSeq(head, 1, j - 1) \o SubSeq(head, j + 1, Len(head))

\* radix_trie_make_suffix at slot j of `head`; `nomem` says malloc returns NULL.
radix_trie_make_suffix(head, j, suffix, nomem) ==
    IF nomem
    THEN [res |-> 1, list |-> head, str |-> suffix]
    ELSE [res  |-> 0,
          list |-> LinkAt(head, j, [substr |-> suffix, child |-> NULLPTR]),
          str  |-> NULLSTR]

\* radix_trie_split of `node` at index diff; `nomem` says malloc returns NULL.
\* The realloc that shrinks the old node keeps its bytes whether it moves the
\* node, leaves it in place or fails.
radix_trie_split(node, diff, nomem) ==
    IF nomem
    THEN [res |-> 1, node |-> node]
    ELSE [res  |-> 0,
          node |-> [substr |-> SubSeq(node.substr, 1, diff),
                    child  |-> << [substr |-> Advance(node.substr, diff),
                                   child  |-> node.child] >>]]

\* radix_trie_try_split on `node`: the node left in its slot, the string
\* pointer (NULLSTR once the string is known to be in the set), whether malloc
\* was called, and the result.
radix_trie_try_split(node, str, nomem) ==
    LET diff == radix_trie_diff(node, str)
    IN  IF diff < Len(node.substr)
        THEN IF node.substr[diff + 1] = str[diff + 1]
             THEN [res |-> 0, node |-> node, str |-> NULLSTR, alloc |-> 0]
             ELSE LET sp == radix_trie_split(node, diff, nomem)
                  IN  IF sp.res # 0
                      THEN [res |-> 1, node |-> node, str |-> str, alloc |-> 1]
                      ELSE [res |-> 0, node |-> sp.node,
                            str |-> Advance(str, diff), alloc |-> 1]
        ELSE [res |-> 0, node |-> node, str |-> Advance(str, diff), alloc |-> 0]

\* The do-while loop of radix_trie_insert with `root` pointing at the head of
\* the sibling list `head`.  `n` allocations were made so far in this call and
\* the failAt-th one fails (0: none does).
RECURSIVE InsertLoop(_, _, _, _)
InsertLoop(head, str, n, failAt) ==
    LET j == radix_trie_lsfind(head, str[1])
    IN  IF j > Len(head) \/ head[j].substr[1] > str[1]
        THEN LET mk == radix_trie_make_suffix(head, j, str, n + 1 = failAt)
             IN  [res |-> mk.res, list |-> mk.list]
        ELSE LET ts == radix_trie_try_split(head[j], str, n + 1 = failAt)
             IN  IF ts.str # NULLSTR /\ ts.res = 0
                 THEN LET sub == InsertLoop(ts.node.child, ts.str, n + ts.alloc, failAt)
                      IN  [res  |-> sub.res,
                           list |-> [head EXCEPT ![j] = [ts.node EXCEPT !.child = sub.list]]]
                 ELSE [res |-> ts.res, list |-> [head EXCEPT ![j] = ts.node]]

radix_trie_insert(rootlist, str, failAt) == InsertLoop(rootlist, str, 0, failAt)

\* The do-while loop of radix_trie_lookup once `root` is the head of `head`.
RECURSIVE LookupLoop(_, _)
LookupLoop(head, str) ==
    LET j == radix_trie_lsfind(head, str[1])
    IN  IF j > Len(head)
        THEN FALSE
        ELSE LET diff == radix_trie_diff(head[j], str)
             IN  IF diff = Len(head[j].substr)
                 THEN LookupLoop(head[j].child, Advance(str, diff))
                 ELSE head[j].substr[diff + 1] = str[diff + 1]

radix_trie_lookup(rootlist, str) == LookupLoop(rootlist, str)

\* The do-while loop of radix_trie_match.
RECURSIVE MatchLoop(_, _)
MatchLoop(head, prefix) ==
    LET j == radix_trie_lsfind(head, prefix[1])
    IN  IF j > Len(head)
        THEN FALSE
        ELSE LET diff == radix_trie_diff(head[j], prefix)
             IN  IF diff < Len(head[j].substr)
                 THEN prefix[diff + 1] = NUL
                 ELSE IF Advance(prefix, diff)[1] # NUL
                      THEN MatchLoop(head[j].child, Advance(prefix, diff))
                      ELSE TRUE

\* A slip in the prefix match: a prefix ending inside a node is accepted
\* without looking at whether it ended there.
RECURSIVE MatchLoopNoEndCheck(_, _)
MatchLoopNoEndCheck(head, prefix) ==
    LET j == radix_trie_lsfind(head, prefix[1])
    IN  IF j > Len(head)
        THEN FALSE
        ELSE LET diff == radix_trie_diff(head[j], prefix)
             IN  IF diff < Len(head[j].substr)
                 THEN TRUE
                 ELSE IF Advance(prefix, diff)[1] # NUL
                      THEN MatchLoopNoEndCheck(head[j].child, Advance(prefix, diff))
                      ELSE TRUE

radix_trie_match_no_end_check(rootlist, prefix) == MatchLoopNoEndCheck(rootlist, prefix)

radix_trie_match(rootlist, prefix) == MatchLoop(rootlist, prefix)

\* A slip in the fuse: the merged node does not adopt the child's children.
radix_trie_fuse_drops_grandchildren(parent, nomem) ==
    IF parent = NULLPTR \/ parent[1].child = NULLPTR \/ Len(parent[1].child) > 1
    THEN [res |-> 0, parent |-> parent]
    ELSE IF nomem
         THEN [res |-> -1, parent |-> parent]
         ELSE [res    |-> 0,
               parent |-> << [substr |-> parent[1].substr \o parent[1].child[1].substr,
                              child  |-> NULLPTR] >>]

\* radix_trie_fuse on *parent, a list of no node (NULL) or one node; `nomem`
\* says realloc returns NULL.
radix_trie_fuse(parent, nomem) ==
    IF parent = NULLPTR \/ parent[1].child = NULLPTR \/ Len(parent[1].child) > 1
    THEN [res |-> 0, parent |-> parent]
    ELSE IF nomem
         THEN [res |-> -1, parent |-> parent]
         ELSE LET child == parent[1].child[1]
              IN  [res    |-> 0,
                   parent |-> << [substr |-> parent[1].substr \o child.substr,
                                  child  |-> child.child] >>]

\* The loop of radix_trie_delete with `root` pointing at the head of `head`.
\* `hit` says the string's node was unlinked from `head` itself, so that the
\* node owning `head` is the `parent` radix_trie_fuse is called on.
RECURSIVE DeleteLoop(_, _, _)
DeleteLoop(head, str, nomem) ==
    LET j == radix_trie_lsfind(head, str[1])
    IN  IF j > Len(head)
        THEN [res |-> 0, list |-> head, hit |-> FALSE]
        ELSE LET diff == radix_trie_diff(head[j], str)
             IN  IF diff < Len(head[j].substr)
                 THEN IF head[j].substr[diff + 1] = str[diff + 1]
                      THEN [res |-> 0, list |-> UnlinkAt(head, j), hit |-> TRUE]
                      ELSE [res |-> 0, list |-> head, hit |-> FALSE]
                 ELSE LET sub == DeleteLoop(head[j].child, Advance(str, diff), nomem)
                          fz  == radix_trie_fuse(<< [head[j] EXCEPT !.child = sub.list] >>, nomem)
                      IN  IF sub.hit
                          THEN [res |-> fz.res, list |-> [head EXCEPT ![j] = fz.parent[1]],
                                hit |-> FALSE]
                          ELSE [res |-> sub.res, list |-> [head EXCEPT ![j].child = sub.list],
                                hit |-> FALSE]

\* radix_trie_delete: at the top level `parent` still points at the NULL of
\* the compound literal.
radix_trie_delete(rootlist, str, nomem) ==
    LET top == DeleteLoop(rootlist, str, nomem)
    IN  [res  |-> IF top.hit THEN radix_trie_fuse(NULLPTR, nomem).res ELSE top.res,
         list |-> top.list]

\* ----------------------------------------------------------- iteration

RADIX_FORBUFSZ == 1024

\* A slip in the clamp: the node's length is taken whatever room is left.
minzu_unclamped(x, y) == y

minzu(x, y) == IF x < y THEN x ELSE y

\* The walk's memory while radix_trie_foreach runs.  `buf` maps the cells of
\* the buffer written so far to their bytes: a cell not written yet still
\* holds whatever the buffer held at the call, the byte iter.garbage.
\* `visited` is the strings the callback has read so far, `jumped` says
\* longjmp was taken, `oob` says a write fell outside cells 0..len-1 and
\* `unterminated` says the callback met no nul inside the buffer.
IterStart ==
    [buf |-> << >>, visited |-> << >>, jumped |-> FALSE, oob |-> FALSE,
     unterminated |-> FALSE]

\* The byte the buffer holds in cell x.
Cell(st, iter, x) == IF x \in DOMAIN st.buf THEN st.buf[x] ELSE iter.garbage

\* memcpy(&iter->buf[i], src, n), and a single store for n = 1.
Memcpy(st, iter, i, src, n) ==
    LET dst == i .. (i + n - 1)
        in  == dst \cap (0 .. (iter.len - 1))
    IN  [st EXCEPT !.buf = [x \in (DOMAIN st.buf) \cup in |->
                                IF x \in in THEN src[x - i + 1] ELSE st.buf[x]],
                   !.oob = st.oob \/ (dst # in)]

\* The bytes of the C string at iter->buf, as the callback reads them: up to
\* the first nul, or all len of them when the buffer holds no nul.
RECURSIVE ReadFrom(_, _, _)
ReadFrom(st, iter, x) ==
    IF x >= iter.len \/ Cell(st, iter, x) = NUL
    THEN << >>
    ELSE <<Cell(st, iter, x)>> \o ReadFrom(st, iter, x + 1)

\* A slip in the walk: the callback's return value is dropped.
CallFnIgnoringStop(st, iter) ==
    [st EXCEPT !.visited = Append(st.visited, ReadFrom(st, iter, 0)),
               !.unterminated = st.unterminated
                                  \/ Len(ReadFrom(st, iter, 0)) = iter.len]

\* iter->fn(iter->buf, iter->data): the callback returns nonzero on its
\* iter.stop-th call (never, when iter.stop = 0), and longjmp follows.
CallFn(st, iter) ==
    LET str == ReadFrom(st, iter, 0)
    IN  [st EXCEPT !.visited = Append(st.visited, str),
                   !.jumped = (Len(st.visited) + 1 = iter.stop),
                   !.unterminated = st.unterminated \/ Len(str) = iter.len]

\* radix_trie_iterate(root, iter, i) with `root` the node at slot j of the
\* sibling list `head` (NULL past its end).  After longjmp nothing runs.
RECURSIVE radix_trie_iterate(_, _, _, _, _)
radix_trie_iterate(head, j, st, iter, i) ==
    IF st.jumped \/ j > Len(head)
    THEN st
    ELSE LET node   == head[j]
             space  == IF iter.len > i THEN iter.len - i ELSE 0
             len    == minzu(space, Len(node.substr))
             copied == Memcpy(st, iter, i, node.substr, len)
             called == IF node.substr[Len(node.substr)] = NUL
                       THEN CallFn(Memcpy(copied, iter, iter.len - 1, <<NUL>>, 1), iter)
                       ELSE copied
             below  == radix_trie_iterate(node.child, 1, called, iter, i + Len(node.substr))
         IN  radix_trie_iterate(head, j + 1, below, iter, i)

\* radix_trie_foreach: `userbuf` says buf is not NULL, `len` is its size,
\* `stop` the call on which the callback returns nonzero, `garbage` the byte
\* the buffer's cells hold at the call.
radix_trie_foreach(rootlist, userbuf, len, stop, garbage) ==
    LET iter == [len     |-> IF userbuf THEN len ELSE RADIX_FORBUFSZ,
                 stop    |-> stop,
                 garbage |-> garbage]
        st   == IF iter.len # 0
                THEN radix_trie_iterate(rootlist, 1, IterStart, iter, 0)
                ELSE IterStart
    IN  [ret          |-> IF st.jumped THEN 1 ELSE 0,
         visited      |-> st.visited,
         oob          |-> st.oob,
         unterminated |-> st.unterminated]

\* ------------------------------------------------------------ the calls

\* Sizes of the buffers callers hand to radix_trie_foreach: from no room at
\* all to room for the longest key, its terminator and a spare byte.
BufLens == 0 .. (MaxLen + 2)

\* The call on which the callback asks to stop (0: never).
StopAts == 0 .. MaxMembers

\* What the cells of the buffer hold when radix_trie_foreach is called: nuls,
\* or a content byte.
Garbage == {NUL, CHOOSE b \in Bytes : TRUE}

NoCall == [op |-> "none", ret |-> 0]

Init ==
    /\ root = NULLPTR
    /\ members = {}
    /\ last = NoCall
    /\ fails = [ins |-> 0, fuse |-> 0]

FailsLeft == fails.ins + fails.fuse < MaxFails

\* radix_trie_insert(&root, key), with the failAt-th allocation failing.
Insert(key, failAt) ==
    /\ key \in members \/ Cardinality(members) < MaxMembers
    /\ failAt = 0 \/ FailsLeft
    /\ LET r == radix_trie_insert(root, CStr(key), failAt)
       IN  /\ root' = r.list
           /\ members' = IF r.res = 0 THEN members \cup {key} ELSE members
           /\ last' = [op |-> "insert", ret |-> r.res]
           /\ fails' = IF r.res # 0 THEN [fails EXCEPT !.ins = @ + 1] ELSE fails

\* radix_trie_delete(&root, key), with the realloc of the fuse failing or not.
Delete(key, nomem) ==
    /\ nomem => FailsLeft
    /\ LET r == radix_trie_delete(root, CStr(key), nomem)
       IN  /\ root' = r.list
           /\ members' = members \ {key}
           /\ last' = [op |-> "delete", ret |-> r.res]
           /\ fails' = IF r.res < 0 THEN [fails EXCEPT !.fuse = @ + 1] ELSE fails

\* Every behaviour: an allocation may fail.
Next ==
    \/ \E key \in Keys, failAt \in 0 .. 2 : Insert(key, failAt)
    \/ \E key \in Keys, nomem \in BOOLEAN : Delete(key, nomem)

Spec == Init /\ [][Next]_vars

\* The behaviours in which no allocation fails.
NextAlloc ==
    \/ \E key \in Keys : Insert(key, 0)
    \/ \E key \in Keys : Delete(key, FALSE)

SpecAlloc == Init /\ [][NextAlloc]_vars

\* The behaviours that only insert, no allocation failing.
NextInsert == \E key \in Keys : Insert(key, 0)

SpecInsert == Init /\ [][NextInsert]_vars

\* ------------------------------------------------------------- the set

\* p is a prefix of s.
IsPrefix(p, s) == Len(p) <= Len(s) /\ SubSeq(s, 1, Len(p)) = p

StrictPrefix(p, s) == IsPrefix(p, s) /\ p # s

\* Ascending byte order of two keys (strcmp(a, b) < 0).
RECURSIVE ByteLess(_, _)
ByteLess(a, b) ==
    IF b = << >> THEN FALSE
    ELSE IF a = << >> THEN TRUE
    ELSE IF a[1] # b[1] THEN a[1] < b[1]
    ELSE ByteLess(Tail(a), Tail(b))

\* The keys of a set in ascending byte order.
RECURSIVE Ascending(_)
Ascending(S) ==
    IF S = {} THEN << >>
    ELSE LET least == CHOOSE a \in S : \A b \in S \ {a} : ByteLess(a, b)
         IN  <<least>> \o Ascending(S \ {least})

\* Every node of the tree under a sibling list.
RECURSIVE NodesOf(_)
NodesOf(head) ==
    UNION {{head[j]} \cup NodesOf(head[j].child) : j \in 1 .. Len(head)}

\* The node's substring ends a stored string.
IsTerminal(node) == node.substr[Len(node.substr)] = NUL

\* The buffer holds every member with its terminator.
Fits(userbuf, len) == (~userbuf) \/ (\A s \in members : Len(s) + 1 <= len)

\* The buffers a caller may pass: none (buf = NULL, len ignored) or one of len bytes.
Buffers == {<<FALSE, 0>>} \cup {<<TRUE, len>> : len \in BufLens}

\* The first n bytes of a key (all of it when it is shorter).
Truncated(s, n) == IF Len(s) <= n THEN s ELSE SubSeq(s, 1, n)

\* radix_trie_lookup answers by the set.
LookupRight == \A s \in Keys : radix_trie_lookup(root, CStr(s)) = (s \in members)

\* radix_trie_match answers by the set.
MatchRight ==
    \A p \in Keys :
        radix_trie_match(root, CStr(p)) = (\E s \in members : IsPrefix(p, s))

\* radix_trie_foreach with its own buffer visits the members in order.
ForeachRight ==
    \A g \in Garbage :
        LET r == radix_trie_foreach(root, FALSE, 0, 0, g)
        IN  r.visited = Ascending(members) /\ r.ret = 0

\* ---------------------------------------------------------------- C1

\* C1: while no allocation fails, radix_trie_lookup(root, s) is true exactly
\* when s is a member: a deleted key is no longer found, and every other
\* member, its strict prefixes and strict extensions among them, still is.
C1_LookupIsMembership == LookupRight

\* A delete has just returned, a key that is not a member lies between a
\* member that is its strict prefix and a member that strictly extends it,
\* and lookup tells the three apart.
C1_Witness ==
    /\ last.op = "delete"
    /\ \E s \in Keys \ members, p \in members, e \in members :
           /\ StrictPrefix(p, s) /\ StrictPrefix(s, e)
           /\ ~radix_trie_lookup(root, CStr(s))
           /\ radix_trie_lookup(root, CStr(p))
           /\ radix_trie_lookup(root, CStr(e))

\* ---------------------------------------------------------------- C2

\* C2: with a buffer that holds every member and its terminator,
\* radix_trie_foreach hands the callback the members, each once and whole,
\* in ascending byte order, and nothing else.
C2_ForeachRoundTrip ==
    LET asc == Ascending(members)
    IN  \A b \in Buffers, g \in Garbage :
            Fits(b[1], b[2]) =>
                radix_trie_foreach(root, b[1], b[2], 0, g).visited = asc

\* MaxMembers keys were inserted, one a strict prefix of another, so that a
\* node was split, and the walk lists them in order.
C2_Witness ==
    /\ last.op = "insert"
    /\ Cardinality(members) = MaxMembers
    /\ \E p \in members, e \in members : StrictPrefix(p, e)
    /\ \E node \in NodesOf(root) : Len(node.child) >= 2
    /\ radix_trie_foreach(root, TRUE, MaxLen + 1, 0, NUL).visited = Ascending(members)

\* ---------------------------------------------------------------- C3

\* C3: while no allocation fails, radix_trie_match(root, p) is true exactly
\* when some member begins with p.
C3_MatchIsPrefix == MatchRight

\* After a delete, a top node of two bytes or more has children: a prefix
\* ending inside it, the prefix ending at its boundary and a whole member all
\* match, and some key that begins no member does not.
C3_Witness ==
    /\ last.op = "delete"
    /\ \E j \in 1 .. Len(root) :
           /\ Len(root[j].substr) >= 2
           /\ root[j].child # NULLPTR
           /\ radix_trie_match(root, CStr(SubSeq(root[j].substr, 1, 1)))
           /\ radix_trie_match(root, CStr(root[j].substr))
    /\ \E s \in members : radix_trie_match(root, CStr(s))
    /\ \E q \in Keys : ~radix_trie_match(root, CStr(q))

\* ---------------------------------------------------------------- C4

\* C4: radix_trie_match with the empty prefix is true for every tree, the
\* empty tree included.
C4_EmptyPrefixMatches == radix_trie_match(root, CStr(<< >>))

\* ---------------------------------------------------------------- C5

\* C5: an insert that returns nonzero leaves the tree as it was before the call.
C5_FailedInsertLeavesTree ==
    [][(last'.op = "insert" /\ last'.ret # 0) => root' = root]_vars

\* ---------------------------------------------------------------- C6

\* C6: once a fuse has failed (and nothing else has), the deleted key is gone
\* and lookup, match and foreach still answer by the set of members.
C6_FragmentedTreeAnswers ==
    (fails.fuse > 0 /\ fails.ins = 0) => (LookupRight /\ MatchRight /\ ForeachRight)

\* ---------------------------------------------------------------- C7

\* C7: radix_trie_delete returns zero when the key was found and removed, a
\* positive value when it was not in the set, a negative value when it was
\* removed but the fuse failed.  (A delete step leaves `members` as it was
\* exactly when its key was not a member, and counts a failed fuse in `fails`.)
C7_DeleteReportsOutcome ==
    [][last'.op = "delete" =>
          IF members' = members THEN last'.ret > 0
          ELSE IF fails'.fuse > fails.fuse THEN last'.ret < 0
          ELSE last'.ret = 0]_vars

\* ---------------------------------------------------------------- C8

\* Every non-terminal node has two children or more.
Canonical == \A node \in NodesOf(root) : IsTerminal(node) \/ Len(node.child) >= 2

\* C8: while no fuse fails, no non-terminal node has exactly one child: every
\* non-terminal node has at least two.
C8_CanonicalForm == (fails.fuse = 0) => Canonical

\* ---------------------------------------------------------------- C9

BufferDiscipline(asc, len, g) ==
    LET r == radix_trie_foreach(root, TRUE, len, 0, g)
    IN  /\ ~r.oob
        /\ ~r.unterminated
        /\ r.ret = 0
        /\ r.visited = [i \in 1 .. Len(asc) |-> Truncated(asc[i], len - 1)]

\* C10 as stated: for a buffer of any size len, radix_trie_foreach writes only
\* cells 0..len-1, and calls the callback once per member, in order, with a
\* nul-terminated string holding the member's first min(length, len-1) bytes.
C10_AnyBuffer ==
    LET asc == Ascending(members)
    IN  \A len \in BufLens, g \in Garbage : BufferDiscipline(asc, len, g)

\* C10 amended: the same for every buffer of at least one byte; with len = 0
\* nothing is written, the callback is never called and zero is returned.
C10_BufferOfAtLeastOneByte ==
    LET asc == Ascending(members)
    IN  /\ \A len \in BufLens \ {0}, g \in Garbage : BufferDiscipline(asc, len, g)
        /\ \A g \in Garbage :
               LET r == radix_trie_foreach(root, TRUE, 0, 0, g)
               IN  r.visited = << >> /\ r.ret = 0 /\ ~r.oob

\* A member of MaxLen bytes sits two nodes deep and the buffer has two bytes:
\* the callback is called once per member, with strings of one byte at most.
C10_Witness ==
    /\ last.op = "insert"
    /\ Cardinality(members) >= 2
    /\ \E s \in members : Len(s) = MaxLen
    /\ \E j \in 1 .. Len(root) : root[j].child # NULLPTR
    /\ LET r == radix_trie_foreach(root, TRUE, 2, 0, 1)
       IN  /\ Len(r.visited) = Cardinality(members)
           /\ \A i \in 1 .. Len(r.visited) : Len(r.visited[i]) <= 1
           /\ \E i \in 1 .. Len(r.visited) : r.visited[i] # Ascending(members)[i]

====
